---- MODULE Spec2Model ----
(***************************************************************************)
(* The batched matrix kernels of pymanopt/tools/multi.py, with the numpy   *)
(* array operations they are written in, and the Euclidean manifold's      *)
(* exp/log maps.                                                           *)
(*                                                                         *)
(* An ndarray is a record [err, dtype, shape, data]: shape is the tuple of *)
(* axis lengths and data maps every index tuple (1-based) to a scalar.     *)
(* A raised exception is a record of the same form whose err names it.     *)
(*                                                                         *)
(* A scalar is a complex number <<re, im>> with one binary fractional      *)
(* digit: re and im count halves, so 1.0 is <<2, 0>> and the literal 0.5   *)
(* of multisym is <<1, 0>>.  The inputs are whole numbers, on which every  *)
(* operation used here is exact in binary floating point as well.  The     *)
(* entries computed by eigh, logm and expm are the scalar Unknown.         *)
(***************************************************************************)
EXTENDS Integers, Sequences, FiniteSets, TLC

VARIABLES
    pc,     \* "ready" before the call, "done" after it
    fn,     \* the function called
    kw,     \* its keyword argument (positive_definite, symmetric)
    A,      \* the array passed to a kernel
    raw,    \* the pairs (q, r) np.linalg.qr returns for the matrices of A
    pt,     \* the points X, Y and the tangent vector U passed to the manifold
    out     \* what the call returned or raised

vars == <<pc, fn, kw, A, raw, pt, out>>

\* ------------------------------------------------------------------ bounds

\* The largest batch count k of an input of shape (k, m, n).
MaxBatch == 2

\* The largest magnitude of a diagonal entry of the library's factor r.
MaxVal == 2

\* The largest magnitude of a coordinate of a point of the Euclidean manifold.
MaxCoord == 1

\* The (m, n) matrix shapes of the inputs.
Shapes == {<<2, 2>>, <<2, 1>>, <<1, 2>>}

\* ----------------------------------------------------------------- scalars

Zero == <<0, 0>>

One == <<2, 0>>

Unknown == <<0, 0, "?">>

\* The quotient of a division by zero.
NaN == <<0, 0, "nan">>

IsUnknown(z) == Len(z) = 3

Whole(a, b) == <<2 * a, 2 * b>>

AbsInt(x) == IF x < 0 THEN -x ELSE x

Add(a, b) == IF IsUnknown(a) \/ IsUnknown(b) THEN Unknown
             ELSE <<a[1] + b[1], a[2] + b[2]>>

Neg(a) == IF IsUnknown(a) THEN Unknown ELSE <<-a[1], -a[2]>>

Sub(a, b) == Add(a, Neg(b))

Mul(a, b) == IF IsUnknown(a) \/ IsUnknown(b) THEN Unknown
             ELSE <<(a[1] * b[1] - a[2] * b[2]) \div 2,
                    (a[1] * b[2] + a[2] * b[1]) \div 2>>

Conj(a) == IF IsUnknown(a) THEN Unknown ELSE <<a[1], -a[2]>>

\* |a|, for a on the real or the imaginary axis.
Abs(a) == IF IsUnknown(a) THEN Unknown ELSE <<AbsInt(a[1]) + AbsInt(a[2]), 0>>

\* a / b for a real b.
Div(a, b) == IF IsUnknown(a) \/ IsUnknown(b) THEN Unknown
             ELSE IF b = Zero THEN NaN
             ELSE <<(2 * a[1]) \div b[1], (2 * a[2]) \div b[1]>>

\* ---------------------------------------------------------------- ndarrays

Array(dtype, shape, data) ==
    [err |-> "none", dtype |-> dtype, shape |-> shape, data |-> data]

Raise(name) == [err |-> name, dtype |-> "none", shape |-> <<>>, data |-> <<>>]

IsError(X) == X.err # "none"

Ndim(X) == Len(X.shape)

RECURSIVE Indices(_)
Indices(shape) ==
    IF shape = <<>> THEN {<<>>}
    ELSE {<<i>> \o t : i \in 1..Head(shape), t \in Indices(Tail(shape))}

Promote(d1, d2) == IF "complex128" \in {d1, d2} THEN "complex128" ELSE "float64"

RangeSeq(n) == [i \in 1..n |-> i - 1]

\* np.transpose(X, axes), axes 0-based as in the source.
NpTranspose(X, axes) ==
    IF IsError(X) THEN X
    ELSE IF Len(axes) # Ndim(X) \/ {axes[i] : i \in DOMAIN axes} # {i - 1 : i \in 1..Ndim(X)}
         THEN Raise("ValueError")
    ELSE LET shp == [i \in 1..Ndim(X) |-> X.shape[axes[i] + 1]]
             Src(idx) == [j \in 1..Ndim(X) |->
                            idx[CHOOSE i \in 1..Ndim(X) : axes[i] + 1 = j]]
         IN Array(X.dtype, shp, [idx \in Indices(shp) |-> X.data[Src(idx)]])

\* X.T : all axes reversed.
NpT(X) == IF IsError(X) THEN X
          ELSE NpTranspose(X, [i \in 1..Ndim(X) |-> Ndim(X) - i])

NpConjugate(X) ==
    IF IsError(X) THEN X
    ELSE Array(X.dtype, X.shape, [idx \in DOMAIN X.data |-> Conj(X.data[idx])])

NpAbs(X) ==
    IF IsError(X) THEN X
    ELSE Array("float64", X.shape, [idx \in DOMAIN X.data |-> Abs(X.data[idx])])

NpReal(X) ==
    IF IsError(X) THEN X
    ELSE Array("float64", X.shape,
               [idx \in DOMAIN X.data |->
                   IF IsUnknown(X.data[idx]) THEN Unknown ELSE <<X.data[idx][1], 0>>])

NpIsrealobj(X) == X.dtype = "float64"

\* numpy broadcasting: shapes are aligned at their last axis, a missing or
\* length-1 axis stretches, anything else is a ValueError.
PadShape(s, n) == [i \in 1..n |-> IF i <= n - Len(s) THEN 1 ELSE s[i - (n - Len(s))]]

MaxInt(a, b) == IF a >= b THEN a ELSE b

BroadcastOk(s1, s2) ==
    LET n == MaxInt(Len(s1), Len(s2))
    IN \A i \in 1..n : \/ PadShape(s1, n)[i] = PadShape(s2, n)[i]
                       \/ PadShape(s1, n)[i] = 1
                       \/ PadShape(s2, n)[i] = 1

BroadcastShape(s1, s2) ==
    LET n == MaxInt(Len(s1), Len(s2))
    IN [i \in 1..n |-> IF PadShape(s1, n)[i] = 1 THEN PadShape(s2, n)[i]
                       ELSE PadShape(s1, n)[i]]

\* The index of the operand of shape s that result index idx reads.
BroadcastIndex(idx, s) ==
    [i \in 1..Len(s) |-> IF s[i] = 1 THEN 1 ELSE idx[i + (Len(idx) - Len(s))]]

\* The elementwise operation named op.
ApplyOp(op, a, b) ==
    CASE op = "add" -> Add(a, b)
      [] op = "sub" -> Sub(a, b)
      [] op = "mul" -> Mul(a, b)
      [] op = "div" -> Div(a, b)

Broadcast(X, Y, op) ==
    IF IsError(X) THEN X
    ELSE IF IsError(Y) THEN Y
    ELSE IF ~BroadcastOk(X.shape, Y.shape) THEN Raise("ValueError")
    ELSE LET shp == BroadcastShape(X.shape, Y.shape)
         IN Array(Promote(X.dtype, Y.dtype), shp,
                  [idx \in Indices(shp) |->
                      ApplyOp(op, X.data[BroadcastIndex(idx, X.shape)],
                                  Y.data[BroadcastIndex(idx, Y.shape)])])

NpAdd(X, Y) == Broadcast(X, Y, "add")

NpSub(X, Y) == Broadcast(X, Y, "sub")

NpMul(X, Y) == Broadcast(X, Y, "mul")

NpDiv(X, Y) == Broadcast(X, Y, "div")

\* A Python float literal as a 0-dimensional operand.
Scalar(z) == Array("float64", <<>>, (<<>> :> z))

\* The first n and the last n entries of a shape, and a shape without them.
Take(s, n) == SubSeq(s, 1, n)

Drop(s, n) == SubSeq(s, n + 1, Len(s))

Last(s, n) == SubSeq(s, Len(s) - n + 1, Len(s))

MinInt(a, b) == IF a <= b THEN a ELSE b

\* X[index] for a tuple index of leading axes.
Item(X, index) ==
    Array(X.dtype, Drop(X.shape, Len(index)),
          [idx \in Indices(Drop(X.shape, Len(index))) |-> X.data[index \o idx]])

\* np.diagonal(X, axis1=-2, axis2=-1).copy()
NpDiagonal(X) ==
    IF IsError(X) THEN X
    ELSE IF Ndim(X) < 2 THEN Raise("ValueError")
    ELSE LET lead == Take(X.shape, Ndim(X) - 2)
             shp == lead \o <<MinInt(X.shape[Ndim(X) - 1], X.shape[Ndim(X)])>>
         IN Array(X.dtype, shp,
                  [idx \in Indices(shp) |->
                      X.data[idx \o <<idx[Len(idx)]>>]])

\* X[X == 0] = 1
SetZerosToOne(X) ==
    IF IsError(X) THEN X
    ELSE Array(X.dtype, X.shape,
               [idx \in DOMAIN X.data |->
                   IF X.data[idx] = Zero THEN One ELSE X.data[idx]])

\* np.expand_dims(X, axis), axis 0-based, negative from the end.
NpExpandDims(X, axis) ==
    IF IsError(X) THEN X
    ELSE LET at == IF axis < 0 THEN axis + Ndim(X) + 1 ELSE axis
         IN IF at < 0 \/ at > Ndim(X) THEN Raise("AxisError")
            ELSE LET shp == Take(X.shape, at) \o <<1>> \o Drop(X.shape, at)
                 IN Array(X.dtype, shp,
                          [idx \in Indices(shp) |->
                              X.data[Take(idx, at) \o Drop(idx, at + 1)]])

RECURSIVE SumTo(_, _, _, _, _)
SumTo(X, Y, ix, iy, p) ==
    IF p = 0 THEN Zero
    ELSE Add(SumTo(X, Y, ix, iy, p - 1),
             Mul(X.data[ix \o <<p>>], Y.data[Take(iy, Len(iy) - 1) \o <<p, iy[Len(iy)]>>]))

\* X @ Y for operands of at least two axes; leading axes broadcast.
NpMatmul(X, Y) ==
    IF IsError(X) THEN X
    ELSE IF IsError(Y) THEN Y
    ELSE IF Ndim(X) < 2 \/ Ndim(Y) < 2 THEN Raise("ValueError")
    ELSE LET bx == Take(X.shape, Ndim(X) - 2)
             by == Take(Y.shape, Ndim(Y) - 2)
             m == X.shape[Ndim(X) - 1]
             p == X.shape[Ndim(X)]
             n == Y.shape[Ndim(Y)]
         IN IF p # Y.shape[Ndim(Y) - 1] \/ ~BroadcastOk(bx, by) THEN Raise("ValueError")
            ELSE LET lead == BroadcastShape(bx, by)
                     shp == lead \o <<m, n>>
                 IN Array(Promote(X.dtype, Y.dtype), shp,
                      [idx \in Indices(shp) |->
                         LET b == Take(idx, Len(lead))
                             i == idx[Len(lead) + 1]
                             j == idx[Len(lead) + 2]
                         IN SumTo(X, Y, BroadcastIndex(b, bx) \o <<i>>,
                                  BroadcastIndex(b, by) \o <<j>>, p)])

\* ------------------------------------------------------- library routines

\* np.linalg.qr(M) for one matrix M: the pair (q, r) with q @ r = M that the
\* library computes, read from its table raw; the signs on the diagonal of
\* r are the library's choice.
NpLinalgQr(M) == CHOOSE p \in raw : NpMatmul(p.q, p.r) = M

\* np.vectorize(np.linalg.qr, signature="(m,n)->(m,k),(k,n)")(X): the loop
\* over the leading axes; without otypes a loop that never runs is an error.
VectorizeQr(X) ==
    IF IsError(X) THEN [q |-> X, r |-> X]
    ELSE IF Ndim(X) < 2 \/ Indices(Take(X.shape, Ndim(X) - 2)) = {}
         THEN [q |-> Raise("ValueError"), r |-> Raise("ValueError")]
    ELSE LET lead == Take(X.shape, Ndim(X) - 2)
             m == X.shape[Ndim(X) - 1]
             n == X.shape[Ndim(X)]
             k == MinInt(m, n)
             res == [index \in Indices(lead) |-> NpLinalgQr(Item(X, index))]
         IN [q |-> Array(X.dtype, lead \o <<m, k>>,
                         [idx \in Indices(lead \o <<m, k>>) |->
                             res[Take(idx, Len(lead))].q.data[Last(idx, 2)]]),
             r |-> Array(X.dtype, lead \o <<k, n>>,
                         [idx \in Indices(lead \o <<k, n>>) |->
                             res[Take(idx, Len(lead))].r.data[Last(idx, 2)]])]

\* scipy.linalg.logm(M) and scipy.linalg.expm(M) for one square matrix.
ScipyMatrixFunction(M) ==
    Array(M.dtype, M.shape, [idx \in Indices(M.shape) |-> Unknown])

\* np.vectorize(f, signature="(m,m)->(m,m)")(X) for f = logm, expm.
VectorizeSquare(X) ==
    IF IsError(X) THEN X
    ELSE IF \/ Ndim(X) < 2
            \/ X.shape[Ndim(X) - 1] # X.shape[Ndim(X)]
            \/ Indices(Take(X.shape, Ndim(X) - 2)) = {}
         THEN Raise("ValueError")
    ELSE LET lead == Take(X.shape, Ndim(X) - 2)
             res == [index \in Indices(lead) |-> ScipyMatrixFunction(Item(X, index))]
         IN Array(X.dtype, X.shape,
                  [idx \in Indices(X.shape) |->
                      res[Take(idx, Len(lead))].data[Last(idx, 2)]])

\* np.linalg.eigh(X): eigenvalues w and eigenvectors v of every matrix.
NpLinalgEigh(X) ==
    IF IsError(X) THEN [w |-> X, v |-> X]
    ELSE IF Ndim(X) < 2 \/ X.shape[Ndim(X) - 1] # X.shape[Ndim(X)]
         THEN [w |-> Raise("LinAlgError"), v |-> Raise("LinAlgError")]
    ELSE LET ws == Take(X.shape, Ndim(X) - 1)
         IN [w |-> Array("float64", ws, [idx \in Indices(ws) |-> Unknown]),
             v |-> Array(X.dtype, X.shape, [idx \in Indices(X.shape) |-> Unknown])]

\* np.log(X) and np.exp(X) of computed eigenvalues.
NpElementwise(X) ==
    IF IsError(X) THEN X
    ELSE Array(X.dtype, X.shape, [idx \in DOMAIN X.data |-> Unknown])

\* np.eye(n)
NpEye(n) ==
    Array("float64", <<n, n>>,
          [idx \in Indices(<<n, n>>) |-> IF idx[1] = idx[2] THEN One ELSE Zero])

\* np.tile(X, reps) for reps at least as long as X.shape.
NpTile(X, reps) ==
    LET shp0 == PadShape(X.shape, Len(reps))
        shp == [i \in 1..Len(reps) |-> shp0[i] * reps[i]]
    IN Array(X.dtype, shp,
             [idx \in Indices(shp) |->
                 X.data[Last([i \in 1..Len(reps) |-> ((idx[i] - 1) % shp0[i]) + 1],
                             Ndim(X))]])

\* ------------------------------------------------------------ the kernels

\* multitransp as a swap of the last two axes of an array of any rank.
MultitranspSwapLast(X) ==
    IF IsError(X) THEN X
    ELSE IF Ndim(X) < 2 THEN Raise("AxisError")
    ELSE NpTranspose(X, RangeSeq(Ndim(X) - 2) \o <<Ndim(X) - 1, Ndim(X) - 2>>)

\* multitransp with the batch axis moved as well.
MultitranspBatchLast(X) ==
    IF IsError(X) THEN X
    ELSE IF Ndim(X) = 2 THEN NpT(X)
    ELSE NpTranspose(X, <<2, 1, 0>>)

multitransp(X) ==
    IF IsError(X) THEN X
    ELSE IF Ndim(X) = 2 THEN NpT(X)
    ELSE NpTranspose(X, <<0, 2, 1>>)

multihconj(X) == NpConjugate(multitransp(X))

\* multisym with the parentheses misplaced: 0.5 * A + multitransp(A).
MultisymPrecedence(X) == NpAdd(NpMul(Scalar(<<1, 0>>), X), multitransp(X))

multisym(X) == NpMul(Scalar(<<1, 0>>), NpAdd(X, multitransp(X)))

multiskew(X) == NpMul(Scalar(<<1, 0>>), NpSub(X, multitransp(X)))

multieye(k, n) == NpTile(NpEye(n), <<k, 1, 1>>)

multilogm(X, positive_definite) ==
    IF ~positive_definite THEN VectorizeSquare(X)
    ELSE LET e == NpLinalgEigh(X)
             w == NpExpandDims(NpElementwise(e.w), -1)
             logmA == NpMatmul(e.v, NpMul(w, multihconj(e.v)))
         IN IF IsError(logmA) THEN logmA
            ELSE IF NpIsrealobj(X) THEN NpReal(logmA) ELSE logmA

multiexpm(X, symmetric) ==
    IF ~symmetric THEN VectorizeSquare(X)
    ELSE LET e == NpLinalgEigh(X)
             w == NpExpandDims(NpElementwise(e.w), -1)
             expmA == NpMatmul(e.v, NpMul(w, multihconj(e.v)))
         IN IF IsError(expmA) THEN expmA
            ELSE IF NpIsrealobj(X) THEN NpReal(expmA) ELSE expmA

\* multiqr without the replacement of the zero diagonal entries.
MultiqrNoZeroGuard(X) ==
    LET f == VectorizeQr(X)
        diagonal == NpDiagonal(f.r)
        s0 == NpDiv(diagonal, NpAbs(diagonal))
        s == IF Ndim(X) = 3 THEN NpExpandDims(s0, 1) ELSE s0
        q == NpMul(f.q, s)
        r == multitransp(NpMul(multitransp(f.r), NpConjugate(s)))
    IN IF IsError(q) THEN [err |-> q.err, q |-> q, r |-> q]
       ELSE IF IsError(r) THEN [err |-> r.err, q |-> r, r |-> r]
       ELSE [err |-> "none", q |-> q, r |-> r]

\* multiqr without the expand_dims of the rank-3 case.
MultiqrNoExpand(X) ==
    LET f == VectorizeQr(X)
        diagonal == SetZerosToOne(NpDiagonal(f.r))
        s == NpDiv(diagonal, NpAbs(diagonal))
        q == NpMul(f.q, s)
        r == multitransp(NpMul(multitransp(f.r), NpConjugate(s)))
    IN IF IsError(q) THEN [err |-> q.err, q |-> q, r |-> q]
       ELSE IF IsError(r) THEN [err |-> r.err, q |-> r, r |-> r]
       ELSE [err |-> "none", q |-> q, r |-> r]

\* multiqr with the expand_dims applied whatever the rank.
MultiqrAlwaysExpand(X) ==
    LET f == VectorizeQr(X)
        diagonal == SetZerosToOne(NpDiagonal(f.r))
        s == NpExpandDims(NpDiv(diagonal, NpAbs(diagonal)), 1)
        q == NpMul(f.q, s)
        r == multitransp(NpMul(multitransp(f.r), NpConjugate(s)))
    IN IF IsError(q) THEN [err |-> q.err, q |-> q, r |-> q]
       ELSE IF IsError(r) THEN [err |-> r.err, q |-> r, r |-> r]
       ELSE [err |-> "none", q |-> q, r |-> r]

\* multiqr with r scaled by s instead of its conjugate.
MultiqrNoConjugate(X) ==
    LET f == VectorizeQr(X)
        diagonal == SetZerosToOne(NpDiagonal(f.r))
        s0 == NpDiv(diagonal, NpAbs(diagonal))
        s == IF Ndim(X) = 3 THEN NpExpandDims(s0, 1) ELSE s0
        q == NpMul(f.q, s)
        r == multitransp(NpMul(multitransp(f.r), s))
    IN IF IsError(q) THEN [err |-> q.err, q |-> q, r |-> q]
       ELSE IF IsError(r) THEN [err |-> r.err, q |-> r, r |-> r]
       ELSE [err |-> "none", q |-> q, r |-> r]

\* multiqr(A): the pair (q, r), or the exception raised on the way.
multiqr(X) ==
    LET f == VectorizeQr(X)
        diagonal == SetZerosToOne(NpDiagonal(f.r))
        s0 == NpDiv(diagonal, NpAbs(diagonal))
        s == IF Ndim(X) = 3 THEN NpExpandDims(s0, 1) ELSE s0
        q == NpMul(f.q, s)
        r == multitransp(NpMul(multitransp(f.r), NpConjugate(s)))
    IN IF IsError(q) THEN [err |-> q.err, q |-> q, r |-> q]
       ELSE IF IsError(r) THEN [err |-> r.err, q |-> r, r |-> r]
       ELSE [err |-> "none", q |-> q, r |-> r]

\* --------------------------------------------- the Euclidean manifold

\* Euclidean(m, n).exp(point, tangent_vector)
EuclideanExp(X, U) == NpAdd(X, U)

\* Euclidean(m, n).log with the operands exchanged.
EuclideanLogSwapped(X, Y) == NpSub(X, Y)

\* Euclidean(m, n).log(point_a, point_b)
EuclideanLog(X, Y) == NpSub(Y, X)

\* ------------------------------------------------------------- the inputs

Range(f) == {f[i] : i \in DOMAIN f}

\* Complex inputs are drawn for the shapes with a single diagonal entry.
Dtypes(shape) ==
    IF MinInt(shape[1], shape[2]) = 1 THEN {"float64", "complex128"} ELSE {"float64"}

\* The values a diagonal entry of the library's r takes: negative, zero and
\* positive and, for complex input, the two imaginary phases.
DiagVals(dtype) ==
    {Whole(-MaxVal, 0), Zero, One}
        \cup (IF dtype = "complex128" THEN {Whole(0, MaxVal), Whole(0, -1)} ELSE {})

\* The library's q: m x k with orthonormal columns.
RawQ(m, k, dtype) ==
    Array(dtype, <<m, k>>,
          [idx \in Indices(<<m, k>>) |->
              IF idx[1] # (idx[2] % m) + 1 THEN Zero
              ELSE IF dtype = "complex128" THEN Whole(0, 1)
              ELSE IF idx[2] = 2 THEN Whole(-1, 0) ELSE Whole(1, 0)])

\* The library's r: k x n upper triangular with diagonal d.
RawR(k, n, dtype, d) ==
    Array(dtype, <<k, n>>,
          [idx \in Indices(<<k, n>>) |->
              IF idx[1] = idx[2] THEN d[idx[1]]
              ELSE IF idx[1] < idx[2] THEN One ELSE Zero])

RawPairs(shape, dtype) ==
    LET k == MinInt(shape[1], shape[2])
    IN {[q |-> RawQ(shape[1], k, dtype), r |-> RawR(k, shape[2], dtype, d)] :
           d \in [1..k -> DiagVals(dtype)]}

\* The array of shape (Len(ms), m, n) holding the matrices ms.
Stack(ms, dtype, shape) ==
    Array(dtype, <<Len(ms)>> \o shape,
          [idx \in Indices(<<Len(ms)>> \o shape) |-> ms[idx[1]].data[Tail(idx)]])

BatchOf(ps, dtype, shape) ==
    Stack([i \in DOMAIN ps |-> NpMatmul(ps[i].q, ps[i].r)], dtype, shape)

\* The (shape, dtype) pairs of the inputs.
Kinds == UNION {{<<shape, dtype>> : dtype \in Dtypes(shape)} : shape \in Shapes}

Rank2Inputs ==
    UNION {{[A |-> NpMatmul(p.q, p.r), raw |-> {p}] : p \in RawPairs(sd[1], sd[2])} :
              sd \in Kinds}

Rank3Inputs ==
    UNION {{[A |-> BatchOf(ps, kd[2][2], kd[2][1]), raw |-> Range(ps)] :
               ps \in [1..kd[1] -> RawPairs(kd[2][1], kd[2][2])]} :
           kd \in (0..MaxBatch) \X Kinds}

\* Arrays of shape (1, k, m, n).
Rank4Inputs ==
    UNION {{LET p == [q |-> RawQ(shape[1], MinInt(shape[1], shape[2]), "float64"),
                      r |-> RawR(MinInt(shape[1], shape[2]), shape[2], "float64",
                                 [i \in 1..MinInt(shape[1], shape[2]) |-> Whole(-MaxVal, 0)])]
            IN [A |-> NpExpandDims(BatchOf([i \in 1..k |-> p], "float64", shape), 0),
                raw |-> {p}] :
               k \in 0..MaxBatch} :
           shape \in Shapes}

\* Vectors and 0-dimensional arrays.
LowRankInputs ==
    {[A |-> Array("float64", <<n>>, [idx \in Indices(<<n>>) |-> Whole(-MaxVal, 0)]),
      raw |-> {}] : n \in 1..2}
        \cup {[A |-> Scalar(z), raw |-> {}] : z \in DiagVals("float64")}

Inputs == Rank2Inputs \cup Rank3Inputs \cup Rank4Inputs \cup LowRankInputs

NoArray == Scalar(Zero)

NoPoints == [X |-> NoArray, Y |-> NoArray, U |-> NoArray]

\* The points and tangent vectors of Euclidean(1, 2).
EuclideanPoints ==
    {Array("float64", <<1, 2>>, (<<1, 1>> :> Whole(a, 0)) @@ (<<1, 2>> :> Whole(b, 0))) :
        a \in (-MaxCoord)..MaxCoord, b \in (-MaxCoord)..MaxCoord}

\* ------------------------------------------------------- the state machine

Init ==
    /\ pc = "ready"
    /\ fn = "none"
    /\ kw = FALSE
    /\ \E in \in Inputs : A = in.A /\ raw = in.raw
    /\ pt = NoPoints
    /\ out = NoArray

CallMultitransp ==
    /\ pc = "ready"
    /\ kw' = FALSE
    /\ out' = multitransp(A)
    /\ fn' = "multitransp"
    /\ pc' = "done"
    /\ UNCHANGED <<A, raw, pt>>

CallMultihconj ==
    /\ pc = "ready"
    /\ kw' = FALSE
    /\ out' = multihconj(A)
    /\ fn' = "multihconj"
    /\ pc' = "done"
    /\ UNCHANGED <<A, raw, pt>>

CallMultisym ==
    /\ pc = "ready"
    /\ kw' = FALSE
    /\ out' = multisym(A)
    /\ fn' = "multisym"
    /\ pc' = "done"
    /\ UNCHANGED <<A, raw, pt>>

CallMultiskew ==
    /\ pc = "ready"
    /\ kw' = FALSE
    /\ out' = multiskew(A)
    /\ fn' = "multiskew"
    /\ pc' = "done"
    /\ UNCHANGED <<A, raw, pt>>

\* multieye(k, n) for the k and n of a batch A of shape (k, m, n).
CallMultieye ==
    /\ pc = "ready"
    /\ Ndim(A) = 3
    /\ kw' = FALSE
    /\ out' = multieye(A.shape[1], A.shape[3])
    /\ fn' = "multieye"
    /\ pc' = "done"
    /\ UNCHANGED <<A, raw, pt>>

CallMultilogm ==
    /\ pc = "ready"
    /\ \E pd \in BOOLEAN : kw' = pd /\ out' = multilogm(A, pd)
    /\ fn' = "multilogm"
    /\ pc' = "done"
    /\ UNCHANGED <<A, raw, pt>>

CallMultiexpm ==
    /\ pc = "ready"
    /\ \E sym \in BOOLEAN : kw' = sym /\ out' = multiexpm(A, sym)
    /\ fn' = "multiexpm"
    /\ pc' = "done"
    /\ UNCHANGED <<A, raw, pt>>

CallMultiqr ==
    /\ pc = "ready"
    /\ kw' = FALSE
    /\ out' = multiqr(A)
    /\ fn' = "multiqr"
    /\ pc' = "done"
    /\ UNCHANGED <<A, raw, pt>>

Next ==
    \/ CallMultitransp
    \/ CallMultihconj
    \/ CallMultisym
    \/ CallMultiskew
    \/ CallMultieye
    \/ CallMultilogm
    \/ CallMultiexpm
    \/ CallMultiqr

Spec == Init /\ [][Next]_vars

\* The Euclidean manifold's round trips.
InitEuclidean ==
    /\ pc = "ready"
    /\ fn = "none"
    /\ kw = FALSE
    /\ A = NoArray
    /\ raw = {}
    /\ pt \in [X : EuclideanPoints, Y : EuclideanPoints, U : EuclideanPoints]
    /\ out = NoArray

\* exp(X, log(X, Y))
CallExpLog ==
    /\ pc = "ready"
    /\ kw' = FALSE
    /\ out' = EuclideanExp(pt.X, EuclideanLog(pt.X, pt.Y))
    /\ fn' = "exp_log"
    /\ pc' = "done"
    /\ UNCHANGED <<A, raw, pt>>

\* log(X, exp(X, U))
CallLogExp ==
    /\ pc = "ready"
    /\ kw' = FALSE
    /\ out' = EuclideanLog(pt.X, EuclideanExp(pt.X, pt.U))
    /\ fn' = "log_exp"
    /\ pc' = "done"
    /\ UNCHANGED <<A, raw, pt>>

NextEuclidean == CallExpLog \/ CallLogExp

SpecEuclidean == InitEuclidean /\ [][NextEuclidean]_vars

\* ------------------------------------------------------------- the claims

Done(name) == pc = "done" /\ fn = name

Returned == out.err = "none"

\* The library's factors of the input, before the sign correction.
Factors == VectorizeQr(A)

\* The sign or phase d / |d| of a diagonal entry d # 0.
Phase(d) == Div(d, Abs(d))

\* C1: every diagonal entry of the R that multiqr returns is real and
\* non-negative, in every slice, whatever signs or phases the library put on
\* the diagonal of its r.
C1_DiagonalNonNegative ==
    (Done("multiqr") /\ Returned) =>
        \A idx \in DOMAIN NpDiagonal(out.r).data :
            /\ NpDiagonal(out.r).data[idx][2] = 0
            /\ NpDiagonal(out.r).data[idx][1] >= 0

\* multiqr returned for a batch of two in which the library's r has a
\* negative diagonal entry.
C1_Witness ==
    /\ Done("multiqr") /\ Returned
    /\ Ndim(A) = 3 /\ A.shape[1] = 2
    /\ \E idx \in DOMAIN NpDiagonal(Factors.r).data :
           NpDiagonal(Factors.r).data[idx][1] < 0

\* C2: the returned pair reproduces the input: Q @ R = q @ r = A in every
\* slice, for the library's factors q, r.
C2_ProductPreserved ==
    (Done("multiqr") /\ Returned) =>
        /\ NpMatmul(out.q, out.r) = A
        /\ NpMatmul(out.q, out.r) = NpMatmul(Factors.q, Factors.r)

\* multiqr returned for a batch and changed a column of q.
C2_Witness ==
    /\ Done("multiqr") /\ Returned
    /\ Ndim(A) = 3 /\ A.shape[1] = 2
    /\ out.q # Factors.q
    /\ \E idx \in DOMAIN A.data : A.data[idx] # Zero

\* C3: at a zero diagonal entry j of the library's r the sign is +1: multiqr
\* returns, column j of Q and row j of R are those of the library, and every
\* other column and row of the slice is scaled by its phase and its
\* conjugate.
C3_ZeroDiagonalUnchanged ==
    (Done("multiqr") /\ Ndim(A) \in {2, 3} /\ ~IsError(Factors.q)) =>
        /\ Returned
        /\ \A idx \in DOMAIN NpDiagonal(Factors.r).data :
             LET lead == Take(idx, Len(idx) - 1)
                 j == idx[Len(idx)]
                 d == NpDiagonal(Factors.r).data[idx]
                 sign == IF d = Zero THEN One ELSE Phase(d)
             IN /\ \A i \in 1..Factors.q.shape[Ndim(A) - 1] :
                       out.q.data[lead \o <<i, j>>]
                           = Mul(Factors.q.data[lead \o <<i, j>>], sign)
                /\ \A c \in 1..Factors.r.shape[Ndim(A)] :
                       out.r.data[lead \o <<j, c>>]
                           = Mul(Factors.r.data[lead \o <<j, c>>], Conj(sign))
                /\ d = Zero =>
                       /\ \A i \in 1..Factors.q.shape[Ndim(A) - 1] :
                              out.q.data[lead \o <<i, j>>] = Factors.q.data[lead \o <<i, j>>]
                       /\ \A c \in 1..Factors.r.shape[Ndim(A)] :
                              out.r.data[lead \o <<j, c>>] = Factors.r.data[lead \o <<j, c>>]

\* multiqr returned for a slice whose r has a zero at one diagonal entry
\* and a negative number at the other.
C3_Witness ==
    /\ Done("multiqr") /\ Returned /\ Ndim(A) = 3
    /\ \E b \in 1..A.shape[1] :
          /\ NpDiagonal(Factors.r).data[<<b, 1>>] = Zero
          /\ <<b, 2>> \in DOMAIN NpDiagonal(Factors.r).data
          /\ NpDiagonal(Factors.r).data[<<b, 2>>][1] < 0
          /\ out.q.data[<<b, 1, 2>>] # Factors.q.data[<<b, 1, 2>>]

\* C4: multitransp of an (M, N, P) array is the (M, P, N) array with
\* result[i][a][b] = A[i][b][a]; of an (N, P) array it is the (P, N) array with
\* result[a][b] = A[b][a].
C4_TransposeEntries ==
    (Done("multitransp") /\ Ndim(A) \in {2, 3}) =>
        /\ Returned
        /\ Ndim(A) = 3 =>
              /\ out.shape = <<A.shape[1], A.shape[3], A.shape[2]>>
              /\ \A i \in 1..A.shape[1], a \in 1..A.shape[3], b \in 1..A.shape[2] :
                     out.data[<<i, a, b>>] = A.data[<<i, b, a>>]
        /\ Ndim(A) = 2 =>
              /\ out.shape = <<A.shape[2], A.shape[1]>>
              /\ \A a \in 1..A.shape[2], b \in 1..A.shape[1] :
                     out.data[<<a, b>>] = A.data[<<b, a>>]

\* multitransp returned for a batch of two different 2 x 1 matrices.
C4_Witness ==
    /\ Done("multitransp") /\ Returned
    /\ A.shape = <<2, 2, 1>>
    /\ Item(A, <<1>>) # Item(A, <<2>>)
    /\ A.data[<<1, 2, 1>>] # Zero

BatchKernels == {"multitransp", "multihconj", "multisym", "multiskew", "multiqr"}

\* What the kernel named name returns for X alone.
Apply(name, X) ==
    CASE name = "multitransp" -> multitransp(X)
      [] name = "multihconj" -> multihconj(X)
      [] name = "multisym" -> multisym(X)
      [] name = "multiskew" -> multiskew(X)
      [] name = "multiqr" -> multiqr(X)

\* Slice i of every output of a kernel is what the kernel returns for slice i
\* of the input alone.
SlicesIndependent ==
    IF fn = "multiqr"
    THEN /\ Ndim(out.q) = 3 /\ out.q.shape[1] = A.shape[1]
         /\ Ndim(out.r) = 3 /\ out.r.shape[1] = A.shape[1]
         /\ \A i \in 1..A.shape[1] :
                /\ Item(out.q, <<i>>) = multiqr(Item(A, <<i>>)).q
                /\ Item(out.r, <<i>>) = multiqr(Item(A, <<i>>)).r
    ELSE /\ Ndim(out) = 3 /\ out.shape[1] = A.shape[1]
         /\ \A i \in 1..A.shape[1] : Item(out, <<i>>) = Apply(fn, Item(A, <<i>>))

\* C5: a batched kernel applied to a batch of k matrices returns k slices,
\* slice i being the kernel's result for input slice i alone.
C5_BatchPreserved ==
    (pc = "done" /\ fn \in BatchKernels /\ Ndim(A) = 3) =>
        Returned /\ SlicesIndependent

\* The same for the batches that hold at least one matrix.
C5_NonEmptyBatchPreserved ==
    (pc = "done" /\ fn \in BatchKernels /\ Ndim(A) = 3 /\ A.shape[1] > 0) =>
        Returned /\ SlicesIndependent

\* C6: every matrix of multisym(A), for square matrices A, equals its
\* transpose, and so multitransp(multisym(A)) = multisym(A).
C6_SymmetrizeSymmetric ==
    (Done("multisym") /\ Ndim(A) \in {2, 3} /\ A.shape[Ndim(A) - 1] = A.shape[Ndim(A)]) =>
        /\ Returned
        /\ multitransp(out) = out
        /\ Ndim(A) = 3 =>
               \A i \in 1..A.shape[1] : NpT(Item(out, <<i>>)) = Item(out, <<i>>)

\* multisym returned for a batch of two 2 x 2 matrices, the first of them
\* not symmetric.
C6_Witness ==
    /\ Done("multisym") /\ Returned
    /\ A.shape = <<2, 2, 2>>
    /\ A.data[<<1, 1, 2>>] # A.data[<<1, 2, 1>>]
    /\ out.data[<<1, 1, 2>>] # A.data[<<1, 1, 2>>]

AllKernels == BatchKernels \cup {"multieye", "multilogm", "multiexpm"}

\* The shape of an empty batch that a kernel returns for the empty batch A.
EmptyStructure ==
    CASE fn = "multiqr" ->
            /\ out.q.shape = <<0, A.shape[2], MinInt(A.shape[2], A.shape[3])>>
            /\ out.r.shape = <<0, MinInt(A.shape[2], A.shape[3]), A.shape[3]>>
      [] fn \in {"multitransp", "multihconj"} ->
            out.shape = <<0, A.shape[3], A.shape[2]>>
      [] fn = "multieye" -> out.shape = <<0, A.shape[3], A.shape[3]>>
      [] OTHER -> out.shape = <<0, A.shape[2], A.shape[3]>>

\* The matrices a kernel is defined on: square ones for the kernels that add
\* a matrix to its transpose or take a matrix function of it.
InDomain ==
    fn \in {"multisym", "multiskew", "multilogm", "multiexpm"} => A.shape[2] = A.shape[3]

\* C7: no kernel faults on a batch of size 0; each returns an empty batch of
\* the structure it returns for a batch that is not empty.
C7_EmptyBatchNoFault ==
    (pc = "done" /\ fn \in AllKernels /\ Ndim(A) = 3 /\ A.shape[1] = 0 /\ InDomain) =>
        Returned /\ EmptyStructure

\* The same for the kernels that do not go through np.vectorize.
C7_EmptyBatchWithoutVectorize ==
    (/\ pc = "done" /\ fn \in AllKernels /\ Ndim(A) = 3 /\ A.shape[1] = 0 /\ InDomain
     /\ fn # "multiqr" /\ (fn \in {"multilogm", "multiexpm"} => kw)) =>
        Returned /\ EmptyStructure

\* C8: multiqr of a single matrix returns 2-dimensional Q and R, equal to
\* slice 0 of what multiqr returns for the batch holding that matrix alone.
C8_SingleMatrixPath ==
    (Done("multiqr") /\ Ndim(A) = 2) =>
        /\ Returned
        /\ Ndim(out.q) = 2 /\ Ndim(out.r) = 2
        /\ multiqr(NpExpandDims(A, 0)).err = "none"
        /\ Item(multiqr(NpExpandDims(A, 0)).q, <<1>>) = out.q
        /\ Item(multiqr(NpExpandDims(A, 0)).r, <<1>>) = out.r

\* multiqr returned for a single 2 x 2 matrix whose r has a negative and a
\* positive diagonal entry.
C8_Witness ==
    /\ Done("multiqr") /\ Returned
    /\ A.shape = <<2, 2>>
    /\ NpDiagonal(Factors.r).data[<<1>>][1] < 0
    /\ NpDiagonal(Factors.r).data[<<2>>][1] > 0
    /\ out.q # Factors.q

RankCheckedKernels ==
    {"multitransp", "multihconj", "multisym", "multiskew", "multilogm", "multiexpm", "multiqr"}

\* C9 as stated: every one of these kernels called with an array whose rank
\* is neither 2 nor 3 raises and returns nothing.
C9_WrongRankRaises ==
    (pc = "done" /\ fn \in RankCheckedKernels /\ Ndim(A) \notin {2, 3}) => ~Returned

\* C9 as amended: called with an array whose rank is neither 2 nor 3,
\* multitransp, multihconj, multisym, multiskew and multiqr raise, and so do
\* multilogm and multiexpm on their eigendecomposition path and for a rank
\* below 2; on their default path multilogm and multiexpm return, for a
\* stack of square matrices of rank 4 that is not empty, an array of the
\* shape of the input.
C9_WrongRankAmended ==
    (pc = "done" /\ fn \in RankCheckedKernels /\ Ndim(A) \notin {2, 3}) =>
        IF fn \in {"multilogm", "multiexpm"} /\ ~kw /\ Ndim(A) >= 2
        THEN IF A.shape[Ndim(A) - 1] = A.shape[Ndim(A)] /\ A.data # <<>>
             THEN Returned /\ out.shape = A.shape
             ELSE ~Returned
        ELSE ~Returned

\* multitransp raised for an array of shape (1, 2, 2, 2).
C9_Witness ==
    /\ Done("multitransp") /\ A.shape = <<1, 2, 2, 2>>
    /\ out.err = "ValueError"

====
